---- MODULE Spec2Model ----
(***************************************************************************)
(* webcheck: resolveAll launches one goroutine per host; each runs         *)
(* resolveOne (DNS lookup, then a TCP dial of every address x candidate    *)
(* port), sends its *hostInfo on the buffered channel rc and reports done  *)
(* to a WaitGroup; the dispatcher goroutine closes rc after wg.Wait();     *)
(* main ranges over rc until it is closed.                                 *)
(*                                                                         *)
(* A *hostInfo is a pointer: the heap object of the i-th launched check is *)
(* hi[i], and rc / received hold the pointers (the indices i).             *)
(***************************************************************************)
EXTENDS Integers, Sequences, FiniteSets, Bags, TLC

\* ---------------------------------------------------------------- bounds
MaxHosts == 2        \* longest host list of Spec
MaxAddrs == 1        \* longest address list a lookup returns in Spec
MaxAddrsOne == 2     \* longest address list a lookup returns in SpecOne
MaxCap == 2          \* largest channel capacity of SpecCap

\* ------------------------------------------------------- program constants
ChanCap == 1024      \* make(chan *hostInfo, 1<<10)

CandidatePorts == {"80", "443"}

\* ------------------------------------------------------------ environment
Names == {"h1", "h2"}
Addrs == {"a1", "a2"}

Nil == "nil"
LookupErr == "no such host"
NoPort == ""

SeqsUpTo(S, n) == UNION {[1..k -> S] : k \in 0..n}

\* What net.LookupHost may return: an error with no addresses, or a list of
\* addresses (possibly empty, possibly with repeats) and a nil error.
LookupOutcomes(n) ==
    {[addrs |-> <<>>, err |-> LookupErr]}
        \cup {[addrs |-> s, err |-> Nil] : s \in SeqsUpTo(Addrs, n)}

HostLists(n) == UNION {[1..k -> Names] : k \in 1..n}

VARIABLES
    hosts,      \* the argument of resolveAll
    cap,        \* capacity of rc
    dns,        \* dns[h]: the answers net.LookupHost(h) may give
    net,        \* net[<<a, p>>]: whether a dial of a:p may succeed (TRUE) / fail (FALSE)
    pc,         \* pc[i]: position of the i-th check's goroutine
    host,       \* host[i]: resolveOne's parameter
    hi,         \* hi[i]: the hostInfo the i-th check allocates
    ports,      \* ports[i]: resolveOne's local map ports
    ai,         \* ai[i]: index in hi.addrs of the outer range
    todo,       \* todo[i]: keys the inner range over ports has still to visit
    cur,        \* cur[i]: the inner loop variable p
    rc,         \* the channel's buffer (pointers, oldest first)
    closed,     \* rc has been closed
    panicked,   \* a runtime panic happened (send on closed channel, close of closed
                \* channel, negative WaitGroup counter)
    wg,         \* the WaitGroup counter
    dpc, di,    \* the dispatcher goroutine: position, index of the range over hosts
    cpc,        \* main's range loop: "range" or "exit"
    received,   \* pointers main has received, in order
    accepted,   \* history: the <<address index, port>> on which a dial of check i succeeded
    probes,     \* history: bag of <<address index, port>> dialled by check i
    lookups,    \* history: number of LookupHost calls of check i
    answer,     \* history: what LookupHost returned to check i (NoAnswer before)
    finished,   \* history: the checks whose resolveOne has returned, in order of return
    inflight,   \* history: network calls (lookup, dial) of check i called and not returned
    conns       \* history: connections check i has opened and not closed

envVars == <<hosts, cap, dns, net>>
taskVars == <<pc, host, hi, ports, ai, todo, cur>>
chanVars == <<rc, closed, panicked>>
dispVars == <<wg, dpc, di>>
consVars == <<cpc, received>>
histVars == <<accepted, probes, lookups, answer, finished, inflight, conns>>
vars == <<envVars, taskVars, chanVars, dispVars, consVars, histVars>>

N == Len(hosts)
Tasks == 1..N

NoInfo == [name |-> "", addrs |-> <<>>, ports |-> <<>>, err |-> Nil]
NoMap == [p \in CandidatePorts |-> FALSE]
NoAnswer == [addrs |-> <<>>, err |-> "none"]

\* ------------------------------------------------------------------ Init
InitEnv(hs, c, d, n) ==
    /\ hosts = hs
    /\ cap = c
    /\ dns = d
    /\ net = n
    /\ pc = [i \in 1..Len(hs) |-> "idle"]
    /\ host = [i \in 1..Len(hs) |-> ""]
    /\ hi = [i \in 1..Len(hs) |-> NoInfo]
    /\ ports = [i \in 1..Len(hs) |-> NoMap]
    /\ ai = [i \in 1..Len(hs) |-> 0]
    /\ todo = [i \in 1..Len(hs) |-> {}]
    /\ cur = [i \in 1..Len(hs) |-> NoPort]
    /\ rc = <<>>
    /\ closed = FALSE
    /\ panicked = FALSE
    /\ wg = 0
    /\ dpc = "add"
    /\ di = 1
    /\ cpc = "range"
    /\ received = <<>>
    /\ accepted = [i \in 1..Len(hs) |-> {}]
    /\ probes = [i \in 1..Len(hs) |-> EmptyBag]
    /\ lookups = [i \in 1..Len(hs) |-> 0]
    /\ answer = [i \in 1..Len(hs) |-> NoAnswer]
    /\ finished = <<>>
    /\ inflight = [i \in 1..Len(hs) |-> 0]
    /\ conns = [i \in 1..Len(hs) |-> 0]

\* any lookup answer among `outcomes`, any dial result, at every call
InitWith(hs, c, outcomes) ==
    InitEnv(hs, c, [h \in Names |-> outcomes], [ap \in Addrs \X CandidatePorts |-> BOOLEAN])

Init == \E hs \in HostLists(MaxHosts) : InitWith(hs, ChanCap, LookupOutcomes(MaxAddrs))

\* ------------------------------------------------------------ dispatcher
\* wg.Add(1)
WgAdd ==
    /\ ~panicked
    /\ dpc = "add"
    /\ wg' = wg + 1
    /\ dpc' = "go"
    /\ UNCHANGED <<di, envVars, taskVars, chanVars, consVars, histVars>>

\* go func() { ... }() for hosts[di], then the next iteration or wg.Wait()
Go ==
    /\ ~panicked
    /\ dpc = "go"
    /\ pc' = [pc EXCEPT ![di] = "start"]
    /\ di' = di + 1
    /\ dpc' = IF di < N THEN "add" ELSE "wait"
    /\ UNCHANGED <<wg, host, hi, ports, ai, todo, cur, envVars, chanVars, consVars, histVars>>

\* faulty variant: the close does not wait for the counter
WaitReturnsAtOnce == TRUE

\* faulty variant: the wait returns while one check is still counted
WaitReturnsEarly == wg <= 1

\* wg.Wait() returns when the counter is zero
WaitReturns == wg = 0

WgWait ==
    /\ ~panicked
    /\ dpc = "wait"
    /\ WaitReturns
    /\ dpc' = "close"
    /\ UNCHANGED <<wg, di, envVars, taskVars, chanVars, consVars, histVars>>

\* close(rc)
Close ==
    /\ ~panicked
    /\ dpc = "close"
    /\ dpc' = "exit"
    /\ IF closed
         THEN panicked' = TRUE /\ closed' = closed
         ELSE closed' = TRUE /\ panicked' = panicked
    /\ UNCHANGED <<rc, wg, di, envVars, taskVars, consVars, histVars>>

\* ------------------------------------------------------- resolveOne (per check)
\* faulty variant: without h := h the closures share the dispatcher's loop variable
CapturedShared(i) == hosts[IF di > N THEN N ELSE di]

\* h := h: the closure of the i-th iteration owns its own copy of the loop variable
Captured(i) == hosts[i]

\* faulty variant: hi := &hostInfo{}
NewInfoNoName(h) == [name |-> "", addrs |-> <<>>, ports |-> <<>>, err |-> Nil]

\* hi := &hostInfo{name: host}
NewInfo(h) == [name |-> h, addrs |-> <<>>, ports |-> <<>>, err |-> Nil]

\* faulty variant: hi.addrs, _ = net.LookupHost(host)
LookupAssignDropErr(h, r) == [h EXCEPT !.addrs = r.addrs]

\* faulty variant: _, hi.err = net.LookupHost(host)
LookupAssignDropAddrs(h, r) == [h EXCEPT !.err = r.err]

\* hi.addrs, hi.err = net.LookupHost(host)
\* (Go's resolver returns no addresses together with an error: LookupOutcomes)
LookupAssign(h, r) == [h EXCEPT !.addrs = r.addrs, !.err = r.err]

\* faulty variant: one successful dial marks every candidate port
MarkAll(m, p) == [q \in DOMAIN m |-> TRUE]

\* ports[p] = true
Mark(m, p) == [m EXCEPT ![p] = TRUE]

\* faulty variant: the open ports are appended twice
OpenPortsTwice(order, m) == SelectSeq(order \o order, LAMBDA p : m[p])

\* faulty variant: every key is appended, whatever its value
OpenPortsAll(order, m) == order

\* for p := range ports { if ports[p] { hi.ports = append(hi.ports, p) } }
\* with the map's keys visited in the order `order`
OpenPorts(order, m) == SelectSeq(order, LAMBDA p : m[p])

\* the orders in which a range over the map ports may visit its keys
KeyOrders ==
    {s \in [1..Cardinality(CandidatePorts) -> CandidatePorts] :
        \A j, k \in DOMAIN s : j # k => s[j] # s[k]}

\* the goroutine starts: resolveOne(h) allocates hi and calls net.LookupHost
LookupCall(i) ==
    /\ ~panicked
    /\ pc[i] = "start"
    /\ host' = [host EXCEPT ![i] = Captured(i)]
    /\ hi' = [hi EXCEPT ![i] = NewInfo(host'[i])]
    /\ pc' = [pc EXCEPT ![i] = "lookup"]
    /\ lookups' = [lookups EXCEPT ![i] = @ + 1]
    /\ inflight' = [inflight EXCEPT ![i] = @ + 1]
    /\ UNCHANGED <<ports, ai, todo, cur, accepted, probes, answer, finished, conns,
                   envVars, chanVars, dispVars, consVars>>

\* net.LookupHost returns; on an error resolveOne returns hi, otherwise the map
\* ports is made and the range over hi.addrs begins
LookupReturn(i) ==
    /\ ~panicked
    /\ pc[i] = "lookup"
    /\ \E r \in dns[host[i]] :
         /\ answer' = [answer EXCEPT ![i] = r]
         /\ hi' = [hi EXCEPT ![i] = LookupAssign(@, r)]
         /\ IF hi'[i].err # Nil
              THEN /\ pc' = [pc EXCEPT ![i] = "send"]
                   /\ finished' = Append(finished, i)
                   /\ UNCHANGED <<ports, ai, todo>>
              ELSE /\ ports' = [ports EXCEPT ![i] = NoMap]
                   /\ finished' = finished
                   /\ IF Len(hi'[i].addrs) = 0
                        THEN /\ pc' = [pc EXCEPT ![i] = "collect"]
                             /\ UNCHANGED <<ai, todo>>
                        ELSE /\ pc' = [pc EXCEPT ![i] = "probe"]
                             /\ ai' = [ai EXCEPT ![i] = 1]
                             /\ todo' = [todo EXCEPT ![i] = CandidatePorts]
    /\ inflight' = [inflight EXCEPT ![i] = @ - 1]
    /\ UNCHANGED <<host, cur, accepted, probes, lookups, conns,
                   envVars, chanVars, dispVars, consVars>>

\* faulty variant: each dial is started in a goroutine of its own and the loop goes on
\* without waiting for it
DialCallAsync(i) ==
    /\ ~panicked
    /\ pc[i] = "probe"
    /\ \E p \in todo[i] :
         /\ todo' = [todo EXCEPT ![i] = @ \ {p}]
         /\ probes' = [probes EXCEPT ![i] = @ (+) SetToBag({<<ai[i], p>>})]
         /\ pc' = [pc EXCEPT ![i] = IF todo[i] = {p} THEN "collect" ELSE "probe"]
    /\ inflight' = [inflight EXCEPT ![i] = @ + 1]
    /\ UNCHANGED <<host, hi, ports, ai, cur, accepted, lookups, answer, finished, conns,
                   envVars, chanVars, dispVars, consVars>>

\* the inner range picks its next key p and calls net.DialTimeout("tcp", a+":"+p, ..)
DialCall(i) ==
    /\ ~panicked
    /\ pc[i] = "probe"
    /\ \E p \in todo[i] :
         /\ cur' = [cur EXCEPT ![i] = p]
         /\ todo' = [todo EXCEPT ![i] = @ \ {p}]
         /\ probes' = [probes EXCEPT ![i] = @ (+) SetToBag({<<ai[i], p>>})]
    /\ pc' = [pc EXCEPT ![i] = "dial"]
    /\ inflight' = [inflight EXCEPT ![i] = @ + 1]
    /\ UNCHANGED <<host, hi, ports, ai, accepted, lookups, answer, finished, conns,
                   envVars, chanVars, dispVars, consVars>>

\* faulty variant: the loops end after the first probe
AfterProbeStopEarly(i) ==
    /\ cur' = [cur EXCEPT ![i] = NoPort]
    /\ pc' = [pc EXCEPT ![i] = "collect"]
    /\ UNCHANGED <<ai, todo>>

\* a variant that leaves out, on later addresses, the ports already found open
AfterProbeSkipOpen(i) ==
    /\ cur' = [cur EXCEPT ![i] = NoPort]
    /\ IF todo[i] # {}
         THEN /\ pc' = [pc EXCEPT ![i] = "probe"]
              /\ UNCHANGED <<ai, todo>>
         ELSE LET rest == CandidatePorts \ {ap[2] : ap \in accepted[i]}
              IN  IF ai[i] < Len(hi[i].addrs) /\ rest # {}
                    THEN /\ pc' = [pc EXCEPT ![i] = "probe"]
                         /\ ai' = [ai EXCEPT ![i] = @ + 1]
                         /\ todo' = [todo EXCEPT ![i] = rest]
                    ELSE /\ pc' = [pc EXCEPT ![i] = "collect"]
                         /\ UNCHANGED <<ai, todo>>

\* the end of one iteration of the inner loop: the next key, the next address,
\* or the end of both loops
AfterProbe(i) ==
    /\ cur' = [cur EXCEPT ![i] = NoPort]
    /\ IF todo[i] # {}
         THEN /\ pc' = [pc EXCEPT ![i] = "probe"]
              /\ UNCHANGED <<ai, todo>>
         ELSE IF ai[i] < Len(hi[i].addrs)
                THEN /\ pc' = [pc EXCEPT ![i] = "probe"]
                     /\ ai' = [ai EXCEPT ![i] = @ + 1]
                     /\ todo' = [todo EXCEPT ![i] = CandidatePorts]
                ELSE /\ pc' = [pc EXCEPT ![i] = "collect"]
                     /\ UNCHANGED <<ai, todo>>

\* net.DialTimeout returns: a connection, or an error and `continue`
DialReturn(i) ==
    /\ ~panicked
    /\ pc[i] = "dial"
    /\ \E ok \in net[<<hi[i].addrs[ai[i]], cur[i]>>] :
         IF ok
           THEN /\ pc' = [pc EXCEPT ![i] = "conn"]
                /\ accepted' = [accepted EXCEPT ![i] = @ \cup {<<ai[i], cur[i]>>}]
                /\ conns' = [conns EXCEPT ![i] = @ + 1]
                /\ UNCHANGED <<ai, todo, cur>>
           ELSE /\ AfterProbe(i)
                /\ UNCHANGED <<accepted, conns>>
    /\ inflight' = [inflight EXCEPT ![i] = @ - 1]
    /\ UNCHANGED <<host, hi, ports, probes, lookups, answer, finished,
                   envVars, chanVars, dispVars, consVars>>

\* faulty variant: conn.Close() is forgotten
AfterCloseLeak(c) == c

\* conn.Close()
AfterClose(c) == c - 1

\* conn.Close(); ports[p] = true
CloseConn(i) ==
    /\ ~panicked
    /\ pc[i] = "conn"
    /\ conns' = [conns EXCEPT ![i] = AfterClose(@)]
    /\ ports' = [ports EXCEPT ![i] = Mark(@, cur[i])]
    /\ AfterProbe(i)
    /\ UNCHANGED <<host, hi, accepted, probes, lookups, answer, finished, inflight,
                   envVars, chanVars, dispVars, consVars>>

\* the de-dupe loop fills hi.ports, and resolveOne returns hi
Collect(i) ==
    /\ ~panicked
    /\ pc[i] = "collect"
    /\ \E order \in KeyOrders :
         hi' = [hi EXCEPT ![i].ports = @ \o OpenPorts(order, ports[i])]
    /\ pc' = [pc EXCEPT ![i] = "send"]
    /\ finished' = Append(finished, i)
    /\ UNCHANGED <<host, ports, ai, todo, cur, accepted, probes, lookups, answer,
                   inflight, conns,
                   envVars, chanVars, dispVars, consVars>>

\* faulty variant: a result jumps the queue
EnqueueFront(q, x) == <<x>> \o q

\* rc <- hi : blocks while the buffer is full, panics on a closed channel
Enqueue(q, x) == Append(q, x)

\* faulty variant: the buffer holds one element less than its capacity
HasRoomOneLess(q, c) == Len(q) < c - 1

\* a send on a buffered channel goes through while the buffer is not full
HasRoom(q, c) == Len(q) < c

Send(i) ==
    /\ ~panicked
    /\ pc[i] = "send"
    /\ closed \/ HasRoom(rc, cap)
    /\ IF closed
         THEN /\ panicked' = TRUE
              /\ UNCHANGED <<rc, pc>>
         ELSE /\ rc' = Enqueue(rc, i)
              /\ pc' = [pc EXCEPT ![i] = "wgdone"]
              /\ panicked' = panicked
    /\ UNCHANGED <<closed, host, hi, ports, ai, todo, cur,
                   envVars, dispVars, consVars, histVars>>

\* faulty variant: wg.Done() is forgotten
AfterDoneMissing(w) == w

\* wg.Done()
AfterDone(w) == w - 1

\* faulty variant: the check resets the ports of its result after the send
WgDoneResetting(i) ==
    /\ ~panicked
    /\ pc[i] = "wgdone"
    /\ wg' = AfterDone(wg)
    /\ panicked' = (wg' < 0)
    /\ pc' = [pc EXCEPT ![i] = "exit"]
    /\ hi' = [hi EXCEPT ![i].ports = <<>>]
    /\ UNCHANGED <<rc, closed, dpc, di, host, ports, ai, todo, cur,
                   envVars, consVars, histVars>>

WgDone(i) ==
    /\ ~panicked
    /\ pc[i] = "wgdone"
    /\ wg' = AfterDone(wg)
    /\ panicked' = (wg' < 0)
    /\ pc' = [pc EXCEPT ![i] = "exit"]
    /\ UNCHANGED <<rc, closed, dpc, di, host, hi, ports, ai, todo, cur,
                   envVars, consVars, histVars>>

\* ----------------------------------------------------------------- main
\* faulty variant: the results are handed over only once all checks are done
CanReceiveAfterAll == rc # <<>> /\ closed

\* a receive from rc succeeds as soon as a result is buffered
CanReceive == rc # <<>>

\* for r := range rc { fmt.Println(r) } : one receive
Recv ==
    /\ ~panicked
    /\ cpc = "range"
    /\ CanReceive
    /\ received' = Append(received, Head(rc))
    /\ rc' = Tail(rc)
    /\ UNCHANGED <<cpc, closed, panicked, envVars, taskVars, dispVars, histVars>>

\* the range loop ends: rc is closed and drained
RecvClosed ==
    /\ ~panicked
    /\ cpc = "range"
    /\ rc = <<>>
    /\ closed
    /\ cpc' = "exit"
    /\ UNCHANGED <<received, envVars, taskVars, chanVars, dispVars, histVars>>

Next ==
    \/ WgAdd
    \/ Go
    \/ WgWait
    \/ Close
    \/ \E i \in Tasks : LookupCall(i)
    \/ \E i \in Tasks : LookupReturn(i)
    \/ \E i \in Tasks : DialCall(i)
    \/ \E i \in Tasks : DialReturn(i)
    \/ \E i \in Tasks : CloseConn(i)
    \/ \E i \in Tasks : Collect(i)
    \/ \E i \in Tasks : Send(i)
    \/ \E i \in Tasks : WgDone(i)
    \/ Recv
    \/ RecvClosed

Spec == Init /\ [][Next]_vars

\* one host, longer address lists: resolveOne alone
InitOne == \E h \in Names : InitWith(<<h>>, ChanCap, LookupOutcomes(MaxAddrsOne))

SpecOne == InitOne /\ [][Next]_vars

\* channel capacities below and above the number of hosts
InitCap ==
    \E hs \in HostLists(MaxHosts), c \in 1..MaxCap :
        InitWith(hs, c, LookupOutcomes(MaxAddrs))

SpecCap == InitCap /\ [][Next]_vars

\* a fixed environment: one answer per hostname, one dial result per address:port
InitFixed ==
    \E hs \in HostLists(MaxHosts),
       d \in [Names -> LookupOutcomes(MaxAddrs)],
       n \in [Addrs \X CandidatePorts -> BOOLEAN] :
        InitEnv(hs, ChanCap, [h \in Names |-> {d[h]}], [ap \in Addrs \X CandidatePorts |-> {n[ap]}])

SpecFixed == InitFixed /\ [][Next]_vars

\* the goroutines, for fairness: the Go scheduler runs every runnable goroutine, and
\* every lookup and dial returns
Dispatcher == WgAdd \/ Go \/ WgWait \/ Close

Check(i) ==
    /\ i \in Tasks
    /\ \/ LookupCall(i)
       \/ LookupReturn(i)
       \/ DialCall(i)
       \/ DialReturn(i)
       \/ CloseConn(i)
       \/ Collect(i)
       \/ Send(i)
       \/ WgDone(i)

Consumer == Recv \/ RecvClosed

Fairness ==
    /\ WF_vars(Dispatcher)
    /\ \A i \in 1..MaxHosts : WF_vars(Check(i))
    /\ WF_vars(Consumer)

LiveSpec == Init /\ [][Next]_vars /\ Fairness

\* the capacity of the program and the small ones, and a consumer that may stop
\* reading at any moment: only the dispatcher and the checks are scheduled fairly
NoReaderSpec ==
    /\ Init \/ InitCap
    /\ [][Next]_vars
    /\ WF_vars(Dispatcher)
    /\ \A i \in 1..MaxHosts : WF_vars(Check(i))

\* the same goroutines and the reading consumer, on channels of small capacity
LiveSpecCap == InitCap /\ [][Next]_vars /\ Fairness

\* ------------------------------------------------------------ the results
Range(s) == {s[k] : k \in DOMAIN s}

\* the pointers sent so far, in the order of their sends
Emitted == received \o rc

Published == Range(Emitted)

Occurrences(s, x) == Cardinality({k \in DOMAIN s : s[k] = x})

AcceptedPorts(i) == {ap[2] : ap \in accepted[i]}

\* ------------------------------------------------------------------ claims
\* C1: when main's range loop has ended it has received exactly N results whose
\* names are, as a multiset, the input hostnames; at every moment each check has
\* sent at most one result, and that result carries the check's own hostname.
OneResultPerHost ==
    /\ \A i \in Tasks : Occurrences(Emitted, i) <= 1
    /\ \A i \in Published : hi[i].name = hosts[i]
    /\ cpc = "exit" =>
          /\ Len(received) = N
          /\ \A i \in Tasks : Occurrences(received, i) = 1
          /\ \A h \in Names :
                Cardinality({k \in DOMAIN received : hi[received[k]].name = h})
                    = Cardinality({i \in Tasks : hosts[i] = h})

OneResultPerHostWitness ==
    /\ cpc = "exit"
    /\ N = 2
    /\ hosts[1] # hosts[2]
    /\ received = <<2, 1>>

\* C2: no panic ever happens (no send on a closed channel, no second close); rc is
\* closed only when every check has sent its result and reported done; main sees
\* the end of the stream only after it has received all N results.
CloseAfterAllSends ==
    /\ ~panicked
    /\ closed => \A i \in Tasks : i \in Published /\ pc[i] = "exit"
    /\ closed => dpc = "exit"
    /\ cpc = "exit" => closed /\ Range(received) = Tasks /\ rc = <<>>

CloseAfterAllSendsWitness ==
    /\ closed
    /\ N = 2
    /\ Len(rc) = 1
    /\ Len(received) = 1
    /\ cpc = "range"

\* C3: under fair scheduling, with every lookup and dial returning and main reading,
\* eventually all N results have been sent, rc is closed and main's loop has ended.
AllDeliveredThenClosed == <>(Published = Tasks /\ closed /\ cpc = "exit")

AllDeliveredThenClosedWitness ==
    /\ Published = Tasks
    /\ closed
    /\ cpc = "exit"
    /\ N = 2
    /\ \E i \in Tasks : hi[i].ports # <<>>

\* C4: a check whose lookup failed never dials, and the result it publishes has no
\* addresses, no open ports and a non-nil error.
FailedLookup(i) == answer[i].err \notin {Nil, NoAnswer.err}

LookupFailureResult ==
    \A i \in Tasks :
        FailedLookup(i) =>
            /\ probes[i] = EmptyBag
            /\ pc[i] \in {"send", "wgdone", "exit"}
            /\ i \in Published =>
                  /\ hi[i].addrs = <<>>
                  /\ hi[i].ports = <<>>
                  /\ hi[i].err # Nil

LookupFailureResultWitness ==
    \E i \in Tasks : FailedLookup(i) /\ i \in Range(received) /\ cpc = "exit"

\* C5: for a check whose lookup succeeded, a candidate port is in the published
\* openPorts exactly when a dial of some resolved address on that port succeeded.
OpenIffAccepted ==
    \A i \in Published :
        answer[i].err = Nil =>
            /\ hi[i].err = Nil
            /\ hi[i].addrs = answer[i].addrs
            /\ \A p \in CandidatePorts : p \in Range(hi[i].ports) <=> p \in AcceptedPorts(i)

\* a host with two addresses that answered on 443 only, on its second address only
OpenIffAcceptedWitness ==
    \E i \in Published :
        /\ Len(hi[i].addrs) = 2
        /\ accepted[i] = {<<2, "443">>}
        /\ hi[i].ports = <<"443">>

\* C5, second case: a host that resolves and is unreachable on every pair
UnreachableWitness ==
    \E i \in Published :
        /\ Len(hi[i].addrs) = 2
        /\ accepted[i] = {}
        /\ hi[i].ports = <<>>
        /\ hi[i].err = Nil

\* C6 (as stated): every published result has addresses non-empty if and only if
\* its error is nil, whatever the lookup returned.
AddrsIffNoError ==
    \A i \in Published : (hi[i].addrs # <<>>) <=> (hi[i].err = Nil)

\* C6 (amended): a published result with addresses has a nil error, one with an
\* error has no addresses, and a result has neither exactly when the lookup
\* returned no addresses and no error.
AddrsImplyNoError ==
    \A i \in Published :
        /\ hi[i].addrs # <<>> => hi[i].err = Nil
        /\ hi[i].err # Nil => hi[i].addrs = <<>>
        /\ (hi[i].addrs = <<>> /\ hi[i].err = Nil)
              <=> answer[i] = [addrs |-> <<>>, err |-> Nil]

AddrsImplyNoErrorWitness ==
    \E i \in Published :
        /\ answer[i] = [addrs |-> <<>>, err |-> Nil]
        /\ hi[i].addrs = <<>>
        /\ hi[i].err = Nil
        /\ pc[i] = "exit"

\* C7: the openPorts of every published result holds candidate ports only, each at
\* most once, however many addresses answered on a port.
OpenPortsNoDuplicates ==
    \A i \in Published :
        /\ Range(hi[i].ports) \subseteq CandidatePorts
        /\ \A p \in CandidatePorts : Occurrences(hi[i].ports, p) <= 1

\* two addresses answered on 80, and 80 is published once
OpenPortsNoDuplicatesWitness ==
    \E i \in Published :
        /\ {<<1, "80">>, <<2, "80">>} \subseteq accepted[i]
        /\ Occurrences(hi[i].ports, "80") = 1

\* C8: a failed lookup of one host leaves every other check as it would be
\* without it: no panic, each published result is made of its own check's host,
\* lookup answer and successful dials only, and main still receives all N results
\* before the stream ends.
OwnResult(i) ==
    /\ hi[i].name = hosts[i]
    /\ hi[i].addrs = answer[i].addrs
    /\ hi[i].err = answer[i].err
    /\ Range(hi[i].ports) = AcceptedPorts(i)

FailureIsolated ==
    (\E j \in Tasks : FailedLookup(j)) =>
        /\ ~panicked
        /\ \A i \in Published : OwnResult(i)
        /\ cpc = "exit" => Range(received) = Tasks

\* the first host failed, the second resolved and answered, both were received
FailureIsolatedWitness ==
    /\ N = 2
    /\ FailedLookup(1)
    /\ answer[2].err = Nil
    /\ hi[2].ports # <<>>
    /\ cpc = "exit"

\* C9 (as stated): results are emitted in the order in which resolveOne returned:
\* the results sent so far are those of the checks that returned first, in the
\* order of their returns.
EmittedInFinishOrder ==
    \A k \in DOMAIN Emitted : Emitted[k] = finished[k]

\* C9 (amended): results are emitted, and received by main, in the order in which
\* the sends on rc happened: the sequence of results sent so far only grows, at
\* its end, by the result of the check that sends.
EmittedInSendOrder ==
    [][\/ Emitted' = Emitted
       \/ \E i \in Tasks : /\ pc[i] = "send"
                            /\ pc'[i] = "wgdone"
                            /\ Emitted' = Append(Emitted, i)]_vars

\* the first host's resolveOne returned first, the second host's result was sent
\* first, and main received them in the order of the sends
EmittedInSendOrderWitness ==
    /\ finished = <<1, 2>>
    /\ received = <<2, 1>>

\* C10 (as stated): the N results received carry pairwise distinct names, for any
\* host list.
NamesDistinct ==
    cpc = "exit" =>
        \A j, k \in DOMAIN received :
            j # k => hi[received[j]].name # hi[received[k]].name

\* C10 (amended): each of the N results received carries the hostname of its own
\* position of the host list, so two results carry the same name exactly when
\* the list names that host at both positions; the names are pairwise distinct
\* when the hostnames of the list are.
NamesAsRequested ==
    cpc = "exit" =>
        /\ Len(received) = N
        /\ \A j, k \in DOMAIN received :
              j # k => /\ received[j] # received[k]
                       /\ hi[received[j]].name \in Range(hosts)
                       /\ (hi[received[j]].name = hi[received[k]].name)
                             <=> (hosts[received[j]] = hosts[received[k]])

NamesAsRequestedWitness ==
    /\ cpc = "exit"
    /\ N = 2
    /\ hosts[1] = hosts[2]
    /\ hi[received[1]].name = hi[received[2]].name

\* C11: a result that has been sent can be received by main at once, whatever the
\* other checks are doing: while main is in its range loop and rc holds a result,
\* the receive is enabled, also when another check is still resolving or probing.
ReceivableAtOnce ==
    (cpc = "range" /\ rc # <<>> /\ ~panicked) => ENABLED Recv

\* the first host's result has been received while the second host's lookup is
\* still outstanding
ReceivableAtOnceWitness ==
    /\ N = 2
    /\ received = <<1>>
    /\ pc[2] = "lookup"
    /\ ~closed

\* C12: in a fixed environment the set of results is a function of the host list
\* and the environment alone, so any two runs, whatever the interleaving and the
\* order in which the map ports is ranged over, produce the same set of results
\* (openPorts compared as a set).
FixedAnswer(h) == CHOOSE r \in dns[h] : TRUE

FixedOpen(addrs) ==
    {p \in CandidatePorts : \E k \in DOMAIN addrs : TRUE \in net[<<addrs[k], p>>]}

ExpectedResult(h) ==
    [name |-> h,
     addrs |-> FixedAnswer(h).addrs,
     err |-> FixedAnswer(h).err,
     open |-> IF FixedAnswer(h).err = Nil THEN FixedOpen(FixedAnswer(h).addrs) ELSE {}]

AsSet(r) == [name |-> r.name, addrs |-> r.addrs, err |-> r.err, open |-> Range(r.ports)]

ResultsDetermined ==
    /\ \A i \in Published : AsSet(hi[i]) = ExpectedResult(hosts[i])
    /\ cpc = "exit" =>
          {AsSet(hi[received[k]]) : k \in DOMAIN received}
              = {ExpectedResult(hosts[i]) : i \in Tasks}

\* the same host checked twice: equal results, with openPorts in different orders
ResultsDeterminedWitness ==
    /\ cpc = "exit"
    /\ N = 2
    /\ hosts[1] = hosts[2]
    /\ hi[1].ports = <<"80", "443">>
    /\ hi[2].ports = <<"443", "80">>

\* C13: within one check at most one network call (the lookup or one dial) is
\* outstanding at any moment, a dial is started only after the lookup has returned
\* without an error, and only after the previous dial of the check has returned.
OneCallAtATime ==
    \A i \in Tasks :
        /\ inflight[i] \in {0, 1}
        /\ pc[i] = "lookup" => probes[i] = EmptyBag
        /\ probes[i] # EmptyBag =>
              /\ lookups[i] = 1
              /\ answer[i].err = Nil
              /\ answer[i].addrs # <<>>

\* the fourth dial of a host with two addresses is outstanding, alone
OneCallAtATimeWitness ==
    \E i \in Tasks :
        /\ pc[i] = "dial"
        /\ ai[i] = 2
        /\ BagCardinality(probes[i]) = 4
        /\ inflight[i] = 1

\* the number of dials of check i to port p over the address positions ks
RECURSIVE DialsAt(_, _, _)
DialsAt(i, ks, p) ==
    IF ks = {} THEN 0
    ELSE LET k == CHOOSE x \in ks : TRUE
         IN  CopiesIn(<<k, p>>, probes[i]) + DialsAt(i, ks \ {k}, p)

\* the number of dials of check i to address a on port p
DialsTo(i, a, p) ==
    DialsAt(i, {k \in DOMAIN answer[i].addrs : answer[i].addrs[k] = a}, p)

\* the check has returned from resolveOne
Returned(i) == pc[i] \in {"send", "wgdone", "exit"}

\* C14 as stated: once the result of a resolved host is ready, each address:port
\* with the address in the answer has been dialled exactly once, and the lookup
\* was done once.
EachPairDialledOnce ==
    \A i \in Tasks :
        (Returned(i) /\ answer[i].err = Nil) =>
            /\ lookups[i] = 1
            /\ \A a \in Range(answer[i].addrs), p \in CandidatePorts : DialsTo(i, a, p) = 1

\* C14: once the result of a host is ready, the lookup was done exactly once and,
\* if it gave no error, every position of the address list has been dialled
\* exactly once on each candidate port, whatever earlier dials answered, and
\* nothing else was dialled; a failed lookup is followed by no dial.
EachPositionDialledOnce ==
    \A i \in Tasks :
        /\ lookups[i] <= 1
        /\ Returned(i) =>
              /\ lookups[i] = 1
              /\ BagToSet(probes[i]) = (DOMAIN answer[i].addrs) \X CandidatePorts
              /\ \A kp \in BagToSet(probes[i]) : CopiesIn(kp, probes[i]) = 1

\* port 80 answered on the first address and not on the second, and all four
\* dials were made
EachPositionDialledOnceWitness ==
    \E i \in Published :
        /\ Len(answer[i].addrs) = 2
        /\ <<1, "80">> \in accepted[i]
        /\ <<2, "80">> \notin accepted[i]
        /\ BagCardinality(probes[i]) = 4

\* every goroutine has run to its end
AllExited ==
    /\ dpc = "exit"
    /\ cpc = "exit"
    /\ \A i \in Tasks : pc[i] = "exit"

\* C15: with any capacity of the stream, also one below the number of hosts, and
\* a consumer that reads until the close, no interleaving panics or gets stuck
\* before every goroutine has ended, no result is sent twice, and in the end all
\* N results have been received exactly once and the stream is closed.
DeliveredAtAnyCapacity ==
    /\ [](/\ ~panicked
          /\ Len(rc) <= cap
          /\ AllExited \/ ENABLED Next
          /\ \A i \in Tasks : Occurrences(Emitted, i) <= 1)
    /\ <>[](/\ closed
            /\ cpc = "exit"
            /\ Len(received) = N
            /\ \A i \in Tasks : Occurrences(received, i) = 1)

\* capacity one and two hosts: the buffer is full, nothing has been read yet,
\* and the first check waits to send
DeliveredAtAnyCapacityWitness ==
    /\ cap = 1
    /\ N = 2
    /\ rc = <<2>>
    /\ received = <<>>
    /\ pc[1] = "send"

\* the lookup of check i returned no address and no error
EmptyAnswer(i) == answer[i] = [addrs |-> <<>>, err |-> Nil]

\* C16: after a lookup that returns no address and no error the check dials
\* nothing, and its result is sent with the requested name, no addresses, no open
\* ports and a nil error.
ResolvedToNothing ==
    \A i \in Tasks :
        EmptyAnswer(i) =>
            /\ probes[i] = EmptyBag
            /\ accepted[i] = {}
            /\ pc[i] \notin {"probe", "dial", "conn"}
            /\ Returned(i) => hi[i] = [name |-> hosts[i], addrs |-> <<>>,
                                       ports |-> <<>>, err |-> Nil]
            /\ pc[i] = "exit" => i \in Published

\* the consumer has received such a result
ResolvedToNothingWitness ==
    \E i \in Range(received) :
        /\ EmptyAnswer(i)
        /\ hi[i].ports = <<>>
        /\ lookups[i] = 1

\* C17: a step that changes a result is a step of the check that owns it, taken
\* inside resolveOne and before the result is sent; once the pointer is on the
\* stream or with the consumer, no step of any goroutine changes the result.
OwnerWritesBeforeSend ==
    [][\A i \in Tasks :
          /\ i \in Published => hi'[i] = hi[i]
          /\ hi'[i] # hi[i] =>
                /\ pc[i] \in {"start", "lookup", "collect"}
                /\ pc'[i] # pc[i]
                /\ \A j \in Tasks \ {i} : pc'[j] = pc[j] /\ hi'[j] = hi[j]
                /\ dpc' = dpc
                /\ cpc' = cpc]_vars

\* both results were received, the first with an open port, and every goroutine
\* has ended since
OwnerWritesBeforeSendWitness ==
    /\ AllExited
    /\ received = <<1, 2>>
    /\ hi[1].ports = <<"80">>
    /\ hi[2].err = LookupErr

\* C18: a check holds at most one open connection, and holds one only between
\* the successful return of a dial and the Close that follows it: none is open
\* when the next dial starts, when the result is collected and sent, or after the
\* check has reported done.
ConnClosedAtOnce ==
    \A i \in Tasks :
        /\ conns[i] \in {0, 1}
        /\ conns[i] = 1 <=> pc[i] = "conn"
        /\ pc[i] = "conn" => inflight[i] = 0

\* two dials of the check succeeded and its result is on the stream
ConnClosedAtOnceWitness ==
    \E i \in Published :
        /\ Cardinality(accepted[i]) >= 2
        /\ conns[i] = 0
        /\ pc[i] = "exit"

\* C19: when the number of hosts is at most the capacity of the stream, a check
\* that has its result ready can always send it at once, whether or not the
\* consumer reads; and with the consumer free to stop reading at any moment,
\* eventually every check has sent its result and reported done and the stream
\* is closed.
NoSendBlocks ==
    /\ [](N <= cap =>
            /\ ~panicked
            /\ \A i \in Tasks : pc[i] = "send" => ENABLED Send(i))
    /\ <>[](N <= cap =>
              /\ closed
              /\ dpc = "exit"
              /\ \A i \in Tasks : pc[i] = "exit" /\ i \in Published)

\* as many hosts as the buffer holds, nothing was ever read, and the stream is
\* closed with both results in the buffer
NoSendBlocksWitness ==
    /\ N = 2
    /\ cap = 2
    /\ closed
    /\ received = <<>>
    /\ Len(rc) = 2
    /\ cpc = "range"

\* the goroutines started by the dispatcher so far
Launched == di - 1

\* the calls of wg.Add made so far: one per launched check, and one more between
\* wg.Add(1) and the go statement of the same iteration
Added == Launched + (IF dpc = "go" THEN 1 ELSE 0)

\* the checks that have called wg.Done
Done == Cardinality({i \in Tasks : pc[i] = "exit"})

\* C20 as stated: in every state the counter is the number of checks launched
\* minus the number of checks that reported done.
CounterIsLaunchedMinusDone == wg = Launched - Done

\* C20: the counter is the number of increments made minus the number of checks
\* that reported done; the increment for a host precedes its launch, so the
\* counter is never below launched minus done and never negative; wg.Wait is
\* reached only with all N checks launched and has returned only with the counter
\* at zero, all N launched and all N done.
BarrierNotPassedEarly ==
    /\ ~panicked
    /\ wg = Added - Done
    /\ wg >= Launched - Done
    /\ wg >= 0
    /\ \A i \in Tasks : pc[i] # "idle" <=> i <= Launched
    /\ dpc \in {"wait", "close", "exit"} => Launched = N
    /\ dpc \in {"close", "exit"} => wg = 0 /\ Done = N

\* the first check has reported done after the increment for the second host
\* and before the second check is launched
BarrierNotPassedEarlyWitness ==
    /\ N = 2
    /\ dpc = "go"
    /\ di = 2
    /\ pc[1] = "exit"
    /\ pc[2] = "idle"
    /\ wg = 1

====
